---- MODULE Spec2Model ----
(***************************************************************************)
(* Model of the component API of design-system-manager:                    *)
(* routes/components.js (Express router over the Mongoose model Component) *)
(* behind the middleware authenticateToken / requireRole.                  *)
(*                                                                         *)
(* A client sends one request (Send), the matching route runs its          *)
(* middleware chain and its handler as one step (RouterGet, RouterGetId,   *)
(* RouterPost, RouterPut, RouterDelete), and the client takes the response *)
(* (Receive).  Tick advances the wall clock read by `new Date()` and by    *)
(* the expiry check of the token.                                          *)
(*                                                                         *)
(* Of a component the model keeps name, description, category, status,     *)
(* createdBy and updatedAt; props, code, designTokens, tags and createdAt  *)
(* are payload no handler decides on.  The query string of GET / is not    *)
(* modelled.                                                               *)
(*                                                                         *)
(* SpecAuth is the sign-in side: routes/auth.js (register, login) issues   *)
(* a token, which the client keeps (session) and presents to the routes of *)
(* the middleware test application (/protected, /admin-only,               *)
(* /designer-dev, /user-info).  SpecTokens is the design token API         *)
(* (/api/tokens), whose router is known through tests/tokens.test.js.      *)
(*                                                                         *)
(* SpecRace is the PUT handler with two invocations in flight: the handler *)
(* is split at its awaits (LoadPut up to the answer of findById, SavePut   *)
(* from there to the answer of save()), and puts holds each invocation.    *)
(***************************************************************************)
EXTENDS Integers, Sequences, FiniteSets, TLC

VARIABLES components, nextId, now, req, res, users, session, tokens, nextTokenId,
          puts

vars == <<components, nextId, now, req, res, users, session, tokens, nextTokenId,
          puts>>

(* ---------------- bounds of the model ---------------- *)

\* number of component documents ever created
MaxComponents == 1

\* last instant of the wall clock
MaxNow == 1

\* number of users ever registered
MaxUsers == 2

\* number of design token documents ever created
MaxTokens == 1

(* ---------------- identities and tokens ---------------- *)

JWT_SECRET == "your-secret-key"

Designer == [id |-> "d1", username |-> "testuser", role |-> "designer"]

Developer == [id |-> "v1", username |-> "developer", role |-> "developer"]

Admin == [id |-> "a1", username |-> "admin", role |-> "admin"]

UpperAdmin == [id |-> "x1", username |-> "user", role |-> "ADMIN"]

Users == {Designer, Developer, Admin}

UserIds == {u.id : u \in Users}

\* jwt.sign(claims, secret, {expiresIn}): a three-segment token carrying the
\* claims, the key it was signed with and its expiry instant
Sign(claims, secret, exp) ==
    [segments |-> 3, payload |-> claims, sig |-> secret, exp |-> exp]

\* 'invalid-token': not a JWT at all
Malformed ==
    [segments |-> 1, payload |-> [id |-> "", username |-> "", role |-> ""],
     sig |-> "", exp |-> 0]

\* 'Bearer ' followed by nothing: split(' ')[1] is the empty string
EmptyToken ==
    [segments |-> 0, payload |-> [id |-> "", username |-> "", role |-> ""],
     sig |-> "", exp |-> 0]

\* expiresIn: '24h' / '1h': beyond every instant of the model
NeverExpires == MaxNow + 1

Bearer(token) == <<"Bearer", token>>

(* ---------------- responses ---------------- *)

NoReq == [method |-> "NONE"]

NoRes == [code |-> 0, error |-> ""]

Reply(code, error) == [code |-> code, error |-> error]

Ok(code) == [code |-> code, error |-> ""]

(* ---------------- middleware/auth.js ---------------- *)

\* jwt.verify(token, secret): well-formed, signed with secret, not expired
Verify(token, secret, t) ==
    /\ token.segments = 3
    /\ token.sig = secret
    /\ token.exp > t

\* const token = authHeader && authHeader.split(' ')[1]; if (!token) ...
\* <<>> when there is no token: no header, one word only, or an empty second word
HeaderToken(headers) ==
    IF Len(headers) >= 2 /\ headers[2] # EmptyToken THEN <<headers[2]>> ELSE <<>>

NoUser == [id |-> "", username |-> "", role |-> ""]

authenticateToken(headers, t) ==
    LET tok == HeaderToken(headers) IN
    IF tok = <<>>
    THEN [next |-> FALSE, user |-> NoUser,
          res |-> Reply(401, "Access token required")]
    ELSE IF ~Verify(tok[1], JWT_SECRET, t)
    THEN [next |-> FALSE, user |-> NoUser,
          res |-> Reply(403, "Invalid or expired token")]
    ELSE [next |-> TRUE, user |-> tok[1].payload, res |-> NoRes]

requireRole(roles, user) ==
    IF user.role \in roles
    THEN [next |-> TRUE, user |-> user, res |-> NoRes]
    ELSE [next |-> FALSE, user |-> user,
          res |-> Reply(403, "Insufficient permissions")]

\* Express runs the middleware of a route in order; the first one that answers
\* ends the request
RECURSIVE RunChain(_, _, _, _)
RunChain(chain, headers, user, t) ==
    IF chain = <<>>
    THEN [next |-> TRUE, user |-> user, res |-> NoRes]
    ELSE LET mw == Head(chain)
             r  == IF mw.mw = "authenticateToken"
                   THEN authenticateToken(headers, t)
                   ELSE requireRole(mw.roles, user)
         IN IF r.next THEN RunChain(Tail(chain), headers, r.user, t) ELSE r

AuthenticateToken == [mw |-> "authenticateToken", roles |-> {}]

RequireRole(roles) == [mw |-> "requireRole", roles |-> roles]

(* ---------------- models/Component.js ---------------- *)

StatusEnum == {"draft", "review", "approved", "deprecated"}

\* the JSON value null of a request body
Null == "<null>"

\* validation run by save(): required paths and the enum of status; status is
\* not a required path, and the enum validator of a path that is not required
\* lets null through
Valid(doc) ==
    /\ doc.name # ""
    /\ doc.description # ""
    /\ doc.category # ""
    /\ doc.status \in StatusEnum \cup {Null}
    /\ doc.createdBy # ""

Has(body, k) == k \in DOMAIN body

\* a destructured body field that is undefined, null or '' is falsy
Truthy(body, k) == Has(body, k) /\ body[k] # "" /\ body[k] # Null

Ids == 1..MaxComponents

(* ---------------- requests the clients send ---------------- *)

PostBase == [name |-> "A", description |-> "d", category |-> "c"]

PostBodies ==
    {PostBase}
    \cup {PostBase @@ [status |-> s] : s \in {"draft", "review", "approved", "bogus", Null}}
    \cup {PostBase @@ [createdBy |-> Admin.id]}
    \cup {[description |-> "d", category |-> "c"],
          [name |-> "A", category |-> "c"],
          [name |-> "A", description |-> "d"]}

EmptyBody == [k \in {} |-> ""]

PutBodies ==
    {[status |-> s] : s \in StatusEnum \cup {"bogus", Null}}
    \cup {[name |-> "B"]}
    \cup {[name |-> "B", status |-> s] : s \in {"review", "approved"}}
    \cup {[createdBy |-> u] : u \in UserIds}
    \cup {EmptyBody}

\* Authorization headers that carry a token the server accepts
AuthHeaders == {Bearer(Sign(u, JWT_SECRET, NeverExpires)) : u \in Users}

UpperAdminHeader == Bearer(Sign(UpperAdmin, JWT_SECRET, NeverExpires))

\* a token that is accepted before instant 1 and expired from then on
ShortLivedHeader == Bearer(Sign(Admin, JWT_SECRET, 1))

\* no header, a header without a token part, and tokens jwt.verify rejects
BadHeaders ==
    {<<>>, <<"InvalidFormat">>,
     Bearer(EmptyToken),
     Bearer(Malformed),
     Bearer(Sign(Admin, "wrong-secret", NeverExpires)),
     Bearer(Sign(Admin, JWT_SECRET, 0))}

Request(method, path, id, headers, body) ==
    [method |-> method, path |-> path, id |-> id, headers |-> headers, body |-> body]

Requests ==
    {Request("GET", "/", 0, h, EmptyBody) : h \in AuthHeaders}
    \cup {Request("GET", "/:id", i, h, EmptyBody) : i \in Ids, h \in AuthHeaders}
    \cup {Request("POST", "/", 0, h, b) : h \in AuthHeaders, b \in PostBodies}
    \cup {Request("PUT", "/:id", i, h, b) : i \in Ids, h \in AuthHeaders, b \in PutBodies}
    \cup {Request("DELETE", "/:id", i, h, EmptyBody) :
             i \in Ids, h \in AuthHeaders \cup {UpperAdminHeader}}
    \cup {Request("GET", "/", 0, h, EmptyBody) : h \in BadHeaders \cup {ShortLivedHeader}}
    \cup {Request("GET", "/:id", 1, h, EmptyBody) : h \in BadHeaders}
    \cup {Request("POST", "/", 0, h, PostBase) : h \in BadHeaders}
    \cup {Request("PUT", "/:id", 1, h, [status |-> "approved"]) :
             h \in BadHeaders \cup {ShortLivedHeader}}
    \cup {Request("DELETE", "/:id", 1, h, EmptyBody) :
             h \in BadHeaders \cup {ShortLivedHeader}}

(* ---------------- routes/components.js ---------------- *)

ServerError == Reply(500, "Component validation failed")

\* req.user.id on a request no middleware put a user on throws a TypeError,
\* which the handler's catch answers
NoUserError == Reply(500, "Cannot read properties of undefined")

Result(r, db) == [res |-> r, db |-> db]

GetChainAdminOnly == <<AuthenticateToken, RequireRole({"admin"})>>

GetChain == <<AuthenticateToken>>

GetIdChainNoAuth == <<>>

GetIdChain == <<AuthenticateToken>>

PostChainNoAuth == <<>>

PostChain == <<AuthenticateToken>>

PutChain == <<AuthenticateToken>>

DeleteChainOpen == <<>>

DeleteChainRoleFirst == <<RequireRole({"admin"}), AuthenticateToken>>

DeleteChainNoRole == <<AuthenticateToken>>

DeleteChain == <<AuthenticateToken, RequireRole({"admin"})>>

GetHandler(db) == Result(Ok(200), db)

GetIdHandlerAlwaysFound(db, id) == Result(Ok(200), db)

GetIdHandler(db, id) ==
    IF id \notin DOMAIN db
    THEN Result(Reply(404, "Component not found"), db)
    ELSE Result(Ok(200), db)

PostStatusDefaultReview(body) ==
    IF Truthy(body, "status") THEN body.status ELSE "review"

\* status: status || 'draft'
PostStatus(body) == IF Truthy(body, "status") THEN body.status ELSE "draft"

NewComponentOwnerFromBody(body, user, t) ==
    [name |-> body.name, description |-> body.description,
     category |-> body.category, status |-> PostStatus(body),
     createdBy |-> IF Truthy(body, "createdBy") THEN body.createdBy ELSE user.id,
     updatedAt |-> t]

NewComponent(body, user, t) ==
    [name |-> body.name, description |-> body.description,
     category |-> body.category, status |-> PostStatus(body),
     createdBy |-> user.id, updatedAt |-> t]

PostHandler(db, nid, user, body, t) ==
    IF ~(Truthy(body, "name") /\ Truthy(body, "description") /\ Truthy(body, "category"))
    THEN Result(Reply(400, "Name, description, and category are required"), db)
    ELSE IF user = NoUser THEN Result(NoUserError, db)
    ELSE LET component == NewComponent(body, user, t) IN
         IF ~Valid(component)
         THEN Result(ServerError, db)
         ELSE Result(Ok(201), db @@ (nid :> component))

NotOwnerNorAdminOwnerRoleGate(component, user) ==
    /\ user.role # "admin"
    /\ component.createdBy # user.id \/ user.role # "designer"

\* component.createdBy.toString() !== req.user.id && req.user.role !== 'admin'
NotOwnerNorAdmin(component, user) ==
    component.createdBy # user.id /\ user.role # "admin"

ReviewExemptionNone(user, updates) == FALSE

ReviewExemptionUpToTwoKeys(user, updates) ==
    /\ user.role = "designer"
    /\ Cardinality(DOMAIN updates) <= 2
    /\ Has(updates, "status") /\ updates.status = "review"

ReviewExemptionAnyKeys(user, updates) ==
    /\ user.role = "designer"
    /\ Has(updates, "status") /\ updates.status = "review"

ReviewExemptionAnyRole(user, updates) ==
    /\ Cardinality(DOMAIN updates) = 1
    /\ Has(updates, "status") /\ updates.status = "review"

\* req.user.role === 'designer' && Object.keys(updates).length === 1
\*   && updates.status === 'review'
ReviewExemption(user, updates) ==
    /\ user.role = "designer"
    /\ Cardinality(DOMAIN updates) = 1
    /\ Has(updates, "status") /\ updates.status = "review"

ApproveDeniedAnyRole(user, updates) ==
    Has(updates, "status") /\ updates.status = "approved"

ApproveDeniedSoleKey(user, updates) ==
    /\ Cardinality(DOMAIN updates) = 1
    /\ Has(updates, "status") /\ updates.status = "approved"
    /\ user.role # "admin"

\* updates.status === 'approved' && req.user.role !== 'admin'
ApproveDenied(user, updates) ==
    /\ Has(updates, "status") /\ updates.status = "approved"
    /\ user.role # "admin"

\* an update that refuses to move the status backwards in the order draft,
\* review, approved, deprecated
AssignForwardOnly(component, updates, t) ==
    LET rank == [s \in StatusEnum |->
                    CASE s = "draft" -> 1 [] s = "review" -> 2
                      [] s = "approved" -> 3 [] OTHER -> 4]
        forward == /\ Has(updates, "status")
                   /\ updates.status \in StatusEnum
                   /\ rank[updates.status] < rank[component.status]
    IN [k \in DOMAIN component |->
           IF k = "updatedAt" THEN t
           ELSE IF k = "status" /\ forward THEN component[k]
           ELSE IF Has(updates, k) THEN updates[k] ELSE component[k]]

\* Object.assign(component, { ...updates, updatedAt: new Date() })
Assign(component, updates, t) ==
    [k \in DOMAIN component |->
        IF k = "updatedAt" THEN t
        ELSE IF Has(updates, k) THEN updates[k] ELSE component[k]]

PutHandler(db, user, id, updates, t) ==
    IF id \notin DOMAIN db
    THEN Result(Reply(404, "Component not found"), db)
    ELSE IF user = NoUser THEN Result(NoUserError, db)
    ELSE LET component == db[id] IN
         IF NotOwnerNorAdmin(component, user) /\ ~ReviewExemption(user, updates)
         THEN Result(Reply(403, "Permission denied"), db)
         ELSE IF ApproveDenied(user, updates)
         THEN Result(Reply(403, "Only admins can approve components"), db)
         ELSE LET saved == Assign(component, updates, t) IN
              IF ~Valid(saved)
              THEN Result(ServerError, db)
              ELSE Result(Ok(200), [db EXCEPT ![id] = saved])

DeleteHandler(db, id) ==
    IF id \notin DOMAIN db
    THEN Result(Reply(404, "Component not found"), db)
    ELSE Result(Ok(200), [i \in (DOMAIN db) \ {id} |-> db[i]])

\* The middleware chain of a route, run on the request in flight
Through(chain) == RunChain(chain, req.headers, NoUser, now)

\* a route whose handler has run although a middleware answered
RouteHandlerRanAnyway(m, handled) ==
    IF m.next THEN handled ELSE Result(m.res, handled.db)

\* The outcome of a route: the handler's, unless a middleware answered
Route(m, handled) == IF m.next THEN handled ELSE Result(m.res, components)

(* ---------------- routes/auth.js ---------------- *)

\* expiresIn: '24h': a token lives for one tick of the clock
TokenTTL == 1

\* the _id the store gives to the n-th saved user
ObjectIds == <<"u1", "u2", "u3", "u4">>

\* bcrypt.hash(password, 10)
Hash(password) == <<"bcrypt", password>>

\* bcrypt.compare(password, user.password)
Compare(password, hash) == hash = Hash(password)

\* the hardcoded users login falls back to
testUsers ==
    {[email |-> "admin@example.com", password |-> "password123",
      username |-> "admin", role |-> "admin"],
     [email |-> "designer@example.com", password |-> "password",
      username |-> "designer", role |-> "designer"],
     [email |-> "dev@example.com", password |-> "dev123",
      username |-> "developer", role |-> "developer"]}

TokenClaimsRoleDropped(id, username, role) ==
    [id |-> id, username |-> username, role |-> "designer"]

\* the payload handed to jwt.sign
TokenClaims(id, username, role) ==
    [id |-> id, username |-> username, role |-> role]

\* the user object of the response body
PublicUser(id, username, email, role) ==
    [id |-> id, username |-> username, email |-> email, role |-> role]

\* a response that carries a fresh token and the user it was issued to
Issued(code, claims, user, t) ==
    [code |-> code, error |-> "",
     token |-> Sign(claims, JWT_SECRET, t + TokenTTL), user |-> user]

NoSession == [token |-> EmptyToken, user |-> PublicUser("", "", "", "")]

\* User.findOne({ $or: [{ email }, { username }] })
ExistingUser(db, body) ==
    \E i \in DOMAIN db : db[i].email = body.email \/ db[i].username = body.username

\* role: role || 'designer'
RegisterRole(body) == IF Truthy(body, "role") THEN body.role ELSE "designer"

StoreError == Reply(500, "Operation users.findOne() buffering timed out")

RegisterHandler(db, body, t, up) ==
    IF ~(Truthy(body, "username") /\ Truthy(body, "email") /\ Truthy(body, "password"))
    THEN Result(Reply(400, "Username, email, and password are required"), db)
    ELSE IF ~up THEN Result(StoreError, db)
    ELSE IF ExistingUser(db, body)
    THEN Result(Reply(400, "User already exists"), db)
    ELSE LET user == [id |-> ObjectIds[Len(db) + 1], username |-> body.username,
                      email |-> body.email, password |-> Hash(body.password),
                      role |-> RegisterRole(body)]
         IN Result(Issued(201, TokenClaims(user.id, user.username, user.role),
                          PublicUser(user.id, user.username, user.email, user.role), t),
                   Append(db, user))

\* the first part of login: the user of the store with that email, when the
\* store answers and the password matches
StoreLogin(db, body, up) ==
    IF ~up THEN {}
    ELSE {i \in DOMAIN db : db[i].email = body.email
                            /\ Compare(body.password, db[i].password)}

\* testUsers.find(u => u.email === email && u.password === password)
FallbackLogin(body) ==
    {u \in testUsers : u.email = body.email /\ u.password = body.password}

LoginHandler(db, body, t, up) ==
    IF ~(Truthy(body, "email") /\ Truthy(body, "password"))
    THEN Result(Reply(400, "Email and password are required"), db)
    ELSE IF StoreLogin(db, body, up) # {}
    THEN LET user == db[CHOOSE i \in StoreLogin(db, body, up) : TRUE]
         IN Result(Issued(200, TokenClaims(user.id, user.username, user.role),
                          PublicUser(user.id, user.username, user.email, user.role), t),
                   db)
    ELSE IF FallbackLogin(body) # {}
    THEN LET testUser == CHOOSE u \in FallbackLogin(body) : TRUE
         IN Result(Issued(200, TokenClaims(testUser.email, testUser.username, testUser.role),
                          PublicUser(testUser.email, testUser.username,
                                     testUser.email, testUser.role), t),
                   db)
    ELSE Result(Reply(401, "Invalid credentials"), db)

RegisterBodies ==
    {[username |-> "testuser", email |-> "test@example.com", password |-> "p1"],
     [username |-> "admin2", email |-> "admin2@example.com", password |-> "p2",
      role |-> "admin"],
     [username |-> "testuser", email |-> "other@example.com", password |-> "p3",
      role |-> "developer"],
     [username |-> "nopass", email |-> "nopass@example.com"]}

LoginBodies ==
    {[email |-> "test@example.com", password |-> "p1"],
     [email |-> "test@example.com", password |-> "wrong"],
     [email |-> "admin2@example.com", password |-> "p2"],
     [email |-> "other@example.com", password |-> "p3"],
     [email |-> "admin@example.com", password |-> "password123"],
     [email |-> "designer@example.com", password |-> "password"],
     [email |-> "dev@example.com", password |-> "dev123"],
     [email |-> "dev@example.com"]}

AuthRequests ==
    {Request("POST", "/register", 0, <<>>, b) : b \in RegisterBodies}
    \cup {Request("POST", "/login", 0, <<>>, b) : b \in LoginBodies}

(* ---------------- the application of tests/middleware.test.js ---------------- *)

ProtectedChain == <<AuthenticateToken>>

AdminOnlyChain == <<AuthenticateToken, RequireRole({"admin"})>>

DesignerDevChainWithAdmin ==
    <<AuthenticateToken, RequireRole({"designer", "developer", "admin"})>>

DesignerDevChain == <<AuthenticateToken, RequireRole({"designer", "developer"})>>

UserInfoChain == <<AuthenticateToken, RequireRole({"admin"})>>

\* res.json({ message: 'Access granted', user: req.user })
ProtectedHandler(user) ==
    [code |-> 200, error |-> "", message |-> "Access granted", user |-> user]

AdminOnlyHandler == [code |-> 200, error |-> "", message |-> "Admin access granted"]

DesignerDevHandler ==
    [code |-> 200, error |-> "", message |-> "Designer or developer access granted"]

UserInfoHandler(user) ==
    [code |-> 200, error |-> "", message |-> "User info",
     userId |-> user.id, username |-> user.username, role |-> user.role]

AppPaths == {"/protected", "/admin-only", "/designer-dev", "/user-info"}

\* the headers a client sends to the application: the token it was issued,
\* tokens signed for the fixed identities, and headers the middleware refuses
AppHeaders(s) ==
    (IF s = NoSession THEN {} ELSE {Bearer(s.token)})
    \cup AuthHeaders
    \cup {UpperAdminHeader, <<>>, Bearer(Malformed)}

AppRequests(s) ==
    {Request("GET", p, 0, h, EmptyBody) : p \in AppPaths, h \in AppHeaders(s)}

\* The answer of an application route: the handler's, unless a middleware answered
AppRoute(m, handled) == IF m.next THEN handled ELSE m.res

(* ---------------- routes/tokens.js, as tests/tokens.test.js fixes it ---------------- *)

OtherDesigner == [id |-> "d2", username |-> "otheruser", role |-> "designer"]

TokenActors == Users \cup {OtherDesigner}

TokenHeaders == {Bearer(Sign(u, JWT_SECRET, NeverExpires)) : u \in TokenActors}

TokenPostBase == [name |-> "primary-blue", category |-> "color", value |-> "#3B82F6"]

TokenPostBodies ==
    {TokenPostBase,
     [category |-> "color", value |-> "#3B82F6"],
     [name |-> "primary-blue", value |-> "#3B82F6"],
     [name |-> "primary-blue", category |-> "color"]}

TokenPutBodies ==
    {[name |-> "updated-token", value |-> "#00FF00"],
     [name |-> "admin-updated-token"]}

TokenIds == 1..MaxTokens

TokenRequests ==
    {Request("GET", "/api/tokens", 0, h, EmptyBody) : h \in TokenHeaders \cup {<<>>}}
    \cup {Request("GET", "/api/tokens/:id", i, h, EmptyBody) :
             i \in TokenIds, h \in TokenHeaders}
    \cup {Request("POST", "/api/tokens", 0, h, b) :
             h \in TokenHeaders, b \in TokenPostBodies}
    \cup {Request("POST", "/api/tokens", 0, <<>>, TokenPostBase)}
    \cup {Request("PUT", "/api/tokens/:id", i, h, b) :
             i \in TokenIds, h \in TokenHeaders, b \in TokenPutBodies}
    \cup {Request("DELETE", "/api/tokens/:id", i, h, EmptyBody) :
             i \in TokenIds, h \in TokenHeaders}

TokenGetChain == <<AuthenticateToken>>

TokenGetIdChain == <<AuthenticateToken>>

TokenPostChain == <<AuthenticateToken>>

TokenPutChain == <<AuthenticateToken>>

TokenDeleteChain == <<AuthenticateToken>>

NewToken(body, user) ==
    [name |-> body.name, category |-> body.category, value |-> body.value,
     createdBy |-> user.id]

TokenGetHandler(db) == Result(Ok(200), db)

TokenGetIdHandler(db, id) ==
    IF id \notin DOMAIN db
    THEN Result(Reply(404, "Design token not found"), db)
    ELSE Result(Ok(200), db)

TokenPostHandler(db, nid, user, body) ==
    IF ~(Truthy(body, "name") /\ Truthy(body, "category") /\ Truthy(body, "value"))
    THEN Result(Reply(400, "Name, category, and value are required"), db)
    ELSE Result(Ok(201), db @@ (nid :> NewToken(body, user)))

TokenOwnerOrAdminAdminOnly(token, user) == user.role = "admin"

\* who may change a token: the user who created it, and an admin
TokenOwnerOrAdmin(token, user) ==
    token.createdBy = user.id \/ user.role = "admin"

TokenPutHandler(db, user, id, updates) ==
    IF id \notin DOMAIN db
    THEN Result(Reply(404, "Design token not found"), db)
    ELSE IF ~TokenOwnerOrAdmin(db[id], user)
    THEN Result(Reply(403, "Permission denied"), db)
    ELSE Result(Ok(200),
                [db EXCEPT ![id] =
                    [k \in DOMAIN db[id] |->
                        IF k \in DOMAIN updates THEN updates[k] ELSE db[id][k]]])

TokenDeleted(db, id) ==
    Result(Ok(200), [i \in (DOMAIN db) \ {id} |-> db[i]])

\* The outcomes of a DELETE: the creator and an admin remove the token; what a
\* user who is neither gets is fixed by no test, so both a refusal and a
\* removal are outcomes
TokenDeleteHandler(db, user, id) ==
    IF id \notin DOMAIN db
    THEN {Result(Reply(404, "Design token not found"), db)}
    ELSE IF TokenOwnerOrAdmin(db[id], user)
    THEN {TokenDeleted(db, id)}
    ELSE {Result(Reply(403, "Permission denied"), db), TokenDeleted(db, id)}

\* The outcome of a token route: the handler's, unless a middleware answered
TokenRoute(m, handled) == IF m.next THEN handled ELSE Result(m.res, tokens)

(* ---------------- PUT requests handled side by side ---------------- *)

\* the PUT requests that are in flight at the same time
Slots == {1, 2}

\* no request in the slot
Idle == [stage |-> "idle"]

RaceBodies ==
    {[name |-> "B"], [createdBy |-> Admin.id], [status |-> "review"]}

\* req.params.id of the PUT requests: they all name the first component
RaceId == 1

RaceRequests ==
    {Request("PUT", "/:id", RaceId, h, b) : h \in AuthHeaders, b \in RaceBodies}

DecideOnStored(loaded, stored) == stored

\* const component = await Component.findById(req.params.id): the checks
\* and Object.assign work on the document this request loaded, whatever the
\* store holds by the time they run
DecideOn(loaded, stored) == loaded

\* save() writes the paths Object.assign changed on the loaded document
ModifiedPaths(component, saved) ==
    {k \in DOMAIN component : saved[k] # component[k]} \cup {"updatedAt"}

SaveModified(stored, component, saved) ==
    [k \in DOMAIN stored |->
        IF k \in ModifiedPaths(component, saved) THEN saved[k] ELSE stored[k]]

\* res.json(component)
OkComponent(component) == Ok(200) @@ [component |-> component]

(* ---------------- the state machine ---------------- *)

Init ==
    /\ components = [i \in {} |-> NewComponent(PostBase, Admin, 0)]
    /\ nextId = 1
    /\ now = 0
    /\ req = NoReq
    /\ res = NoRes
    /\ users = <<>>
    /\ session = NoSession
    /\ tokens = [i \in {} |-> NewToken(TokenPostBase, Admin)]
    /\ nextTokenId = 1
    /\ puts = [s \in Slots |-> Idle]

Pending(method, path) ==
    /\ req.method = method
    /\ req.path = path
    /\ res = NoRes

Send ==
    /\ req = NoReq
    /\ \E r \in Requests :
          /\ r.method = "POST" => nextId <= MaxComponents
          /\ req' = r
    /\ UNCHANGED <<components, nextId, now, res, users, session, tokens, nextTokenId, puts>>

RouterGet ==
    /\ Pending("GET", "/")
    /\ LET m == Through(GetChain)
           out == Route(m, GetHandler(components))
       IN /\ res' = out.res
          /\ components' = out.db
    /\ UNCHANGED <<nextId, now, req, users, session, tokens, nextTokenId, puts>>

RouterGetId ==
    /\ Pending("GET", "/:id")
    /\ LET m == Through(GetIdChain)
           out == Route(m, GetIdHandler(components, req.id))
       IN /\ res' = out.res
          /\ components' = out.db
    /\ UNCHANGED <<nextId, now, req, users, session, tokens, nextTokenId, puts>>

RouterPost ==
    /\ Pending("POST", "/")
    /\ LET m == Through(PostChain)
           out == Route(m, PostHandler(components, nextId, m.user, req.body, now))
       IN /\ res' = out.res
          /\ components' = out.db
          /\ nextId' = IF out.res.code = 201 THEN nextId + 1 ELSE nextId
    /\ UNCHANGED <<now, req, users, session, tokens, nextTokenId, puts>>

RouterPut ==
    /\ Pending("PUT", "/:id")
    /\ LET m == Through(PutChain)
           out == Route(m, PutHandler(components, m.user, req.id, req.body, now))
       IN /\ res' = out.res
          /\ components' = out.db
    /\ UNCHANGED <<nextId, now, req, users, session, tokens, nextTokenId, puts>>

RouterDelete ==
    /\ Pending("DELETE", "/:id")
    /\ LET m == Through(DeleteChain)
           out == Route(m, DeleteHandler(components, req.id))
       IN /\ res' = out.res
          /\ components' = out.db
    /\ UNCHANGED <<nextId, now, req, users, session, tokens, nextTokenId, puts>>

Receive ==
    /\ res # NoRes
    /\ req' = NoReq
    /\ res' = NoRes
    /\ UNCHANGED <<components, nextId, now, users, session, tokens, nextTokenId, puts>>

Tick ==
    /\ now < MaxNow
    /\ now' = now + 1
    /\ UNCHANGED <<components, nextId, req, res, users, session, tokens, nextTokenId, puts>>

Next ==
    \/ Send
    \/ RouterGet
    \/ RouterGetId
    \/ RouterPost
    \/ RouterPut
    \/ RouterDelete
    \/ Receive
    \/ Tick

Spec == Init /\ [][Next]_vars

(* ---------------- sign-in and the middleware application ---------------- *)

SendAuth ==
    /\ req = NoReq
    /\ \E r \in AuthRequests :
          /\ r.path = "/register" => Len(users) < MaxUsers
          /\ req' = r
    /\ UNCHANGED <<components, nextId, now, res, users, session, tokens, nextTokenId, puts>>

\* the store answers (up) or fails the lookup
RouterRegister ==
    /\ Pending("POST", "/register")
    /\ \E up \in BOOLEAN :
          LET out == RegisterHandler(users, req.body, now, up)
          IN /\ res' = out.res
             /\ users' = out.db
    /\ UNCHANGED <<components, nextId, now, req, session, tokens, nextTokenId, puts>>

RouterLogin ==
    /\ Pending("POST", "/login")
    /\ \E up \in BOOLEAN :
          LET out == LoginHandler(users, req.body, now, up)
          IN /\ res' = out.res
             /\ users' = out.db
    /\ UNCHANGED <<components, nextId, now, req, session, tokens, nextTokenId, puts>>

\* the client keeps the token and the user of a successful register or login
ReceiveAuth ==
    /\ req # NoReq
    /\ req.path \in {"/register", "/login"}
    /\ res # NoRes
    /\ session' = IF res.code \in {200, 201}
                  THEN [token |-> res.token, user |-> res.user]
                  ELSE session
    /\ req' = NoReq
    /\ res' = NoRes
    /\ UNCHANGED <<components, nextId, now, users, tokens, nextTokenId, puts>>

SendApp ==
    /\ req = NoReq
    /\ \E r \in AppRequests(session) : req' = r
    /\ UNCHANGED <<components, nextId, now, res, users, session, tokens, nextTokenId, puts>>

AppProtected ==
    /\ Pending("GET", "/protected")
    /\ LET m == Through(ProtectedChain)
       IN res' = AppRoute(m, ProtectedHandler(m.user))
    /\ UNCHANGED <<components, nextId, now, req, users, session, tokens, nextTokenId, puts>>

AppAdminOnly ==
    /\ Pending("GET", "/admin-only")
    /\ LET m == Through(AdminOnlyChain)
       IN res' = AppRoute(m, AdminOnlyHandler)
    /\ UNCHANGED <<components, nextId, now, req, users, session, tokens, nextTokenId, puts>>

AppDesignerDev ==
    /\ Pending("GET", "/designer-dev")
    /\ LET m == Through(DesignerDevChain)
       IN res' = AppRoute(m, DesignerDevHandler)
    /\ UNCHANGED <<components, nextId, now, req, users, session, tokens, nextTokenId, puts>>

AppUserInfo ==
    /\ Pending("GET", "/user-info")
    /\ LET m == Through(UserInfoChain)
       IN res' = AppRoute(m, UserInfoHandler(m.user))
    /\ UNCHANGED <<components, nextId, now, req, users, session, tokens, nextTokenId, puts>>

\* the client takes the answer of an application route
ReceiveApp ==
    /\ req # NoReq
    /\ req.path \in AppPaths
    /\ res # NoRes
    /\ req' = NoReq
    /\ res' = NoRes
    /\ UNCHANGED <<components, nextId, now, users, session, tokens, nextTokenId, puts>>

NextAuth ==
    \/ SendAuth
    \/ RouterRegister
    \/ RouterLogin
    \/ ReceiveAuth
    \/ SendApp
    \/ AppProtected
    \/ AppAdminOnly
    \/ AppDesignerDev
    \/ AppUserInfo
    \/ ReceiveApp
    \/ Tick

SpecAuth == Init /\ [][NextAuth]_vars

(* ---------------- the design token API ---------------- *)

SendToken ==
    /\ req = NoReq
    /\ \E r \in TokenRequests :
          /\ r.method = "POST" => nextTokenId <= MaxTokens
          /\ req' = r
    /\ UNCHANGED <<components, nextId, now, res, users, session, tokens, nextTokenId, puts>>

RouterTokenGet ==
    /\ Pending("GET", "/api/tokens")
    /\ LET m == Through(TokenGetChain)
           out == TokenRoute(m, TokenGetHandler(tokens))
       IN /\ res' = out.res
          /\ tokens' = out.db
    /\ UNCHANGED <<components, nextId, now, req, users, session, nextTokenId, puts>>

RouterTokenGetId ==
    /\ Pending("GET", "/api/tokens/:id")
    /\ LET m == Through(TokenGetIdChain)
           out == TokenRoute(m, TokenGetIdHandler(tokens, req.id))
       IN /\ res' = out.res
          /\ tokens' = out.db
    /\ UNCHANGED <<components, nextId, now, req, users, session, nextTokenId, puts>>

RouterTokenPost ==
    /\ Pending("POST", "/api/tokens")
    /\ LET m == Through(TokenPostChain)
           out == TokenRoute(m, TokenPostHandler(tokens, nextTokenId, m.user, req.body))
       IN /\ res' = out.res
          /\ tokens' = out.db
          /\ nextTokenId' = IF out.res.code = 201 THEN nextTokenId + 1 ELSE nextTokenId
    /\ UNCHANGED <<components, nextId, now, req, users, session, puts>>

RouterTokenPut ==
    /\ Pending("PUT", "/api/tokens/:id")
    /\ LET m == Through(TokenPutChain)
           out == TokenRoute(m, TokenPutHandler(tokens, m.user, req.id, req.body))
       IN /\ res' = out.res
          /\ tokens' = out.db
    /\ UNCHANGED <<components, nextId, now, req, users, session, nextTokenId, puts>>

RouterTokenDelete ==
    /\ Pending("DELETE", "/api/tokens/:id")
    /\ LET m == Through(TokenDeleteChain)
       IN \E out \in (IF m.next
                      THEN TokenDeleteHandler(tokens, m.user, req.id)
                      ELSE {Result(m.res, tokens)}) :
             /\ res' = out.res
             /\ tokens' = out.db
    /\ UNCHANGED <<components, nextId, now, req, users, session, nextTokenId, puts>>

NextTokens ==
    \/ SendToken
    \/ RouterTokenGet
    \/ RouterTokenGetId
    \/ RouterTokenPost
    \/ RouterTokenPut
    \/ RouterTokenDelete
    \/ Receive
    \/ Tick

SpecTokens == Init /\ [][NextTokens]_vars

(* ---------------- actions of PUT requests side by side ---------------- *)

\* a designer creates the component the PUT requests name
SendPost ==
    /\ req = NoReq
    /\ nextId = RaceId
    /\ nextId <= MaxComponents
    /\ req' = Request("POST", "/", 0,
                      Bearer(Sign(Designer, JWT_SECRET, NeverExpires)), PostBase)
    /\ UNCHANGED <<components, nextId, now, res, users, session, tokens, nextTokenId, puts>>

SendPut(s) ==
    /\ puts[s] = Idle
    /\ \E r \in RaceRequests : puts' = [puts EXCEPT ![s] = [stage |-> "sent", req |-> r]]
    /\ UNCHANGED <<components, nextId, now, req, res, users, session, tokens, nextTokenId>>

\* the middleware and the handler up to the answer of findById
LoadPut(s) ==
    /\ puts[s].stage = "sent"
    /\ LET r == puts[s].req
           m == RunChain(PutChain, r.headers, NoUser, now)
       IN puts' = [puts EXCEPT ![s] =
             IF ~m.next
             THEN [stage |-> "done", req |-> r, res |-> m.res]
             ELSE IF r.id \notin DOMAIN components
             THEN [stage |-> "done", req |-> r,
                   res |-> Reply(404, "Component not found")]
             ELSE [stage |-> "loaded", req |-> r, user |-> m.user,
                   component |-> components[r.id]]]
    /\ UNCHANGED <<components, nextId, now, req, res, users, session, tokens, nextTokenId>>

\* the handler from the answer of findById to the answer of save()
SavePut(s) ==
    /\ puts[s].stage = "loaded"
    /\ LET p == puts[s]
           id == p.req.id
           component == DecideOn(p.component, components[id])
           out == PutHandler((id :> component), p.user, id, p.req.body, now)
       IN IF out.res.code = 200
          THEN /\ components' = [components EXCEPT ![id] =
                                    SaveModified(components[id], component, out.db[id])]
               /\ puts' = [puts EXCEPT ![s] =
                             [stage |-> "done", req |-> p.req,
                              res |-> OkComponent(out.db[id])]]
          ELSE /\ components' = components
               /\ puts' = [puts EXCEPT ![s] =
                             [stage |-> "done", req |-> p.req, res |-> out.res]]
    /\ UNCHANGED <<nextId, now, req, res, users, session, tokens, nextTokenId>>

ReceivePut(s) ==
    /\ puts[s].stage = "done"
    /\ puts' = [puts EXCEPT ![s] = Idle]
    /\ UNCHANGED <<components, nextId, now, req, res, users, session, tokens, nextTokenId>>

NextRace ==
    \/ SendPost
    \/ RouterPost
    \/ Receive
    \/ \E s \in Slots : SendPut(s)
    \/ \E s \in Slots : LoadPut(s)
    \/ \E s \in Slots : SavePut(s)
    \/ \E s \in Slots : ReceivePut(s)
    \/ Tick

SpecRace == Init /\ [][NextRace]_vars

(* ---------------- what the claims speak about ---------------- *)

\* the step in which a route answers the request in flight
Answers(method) ==
    /\ req.method = method
    /\ res = NoRes
    /\ res' # NoRes

\* the request in flight carries a token jwt.verify accepts at this instant
Authenticated ==
    /\ req # NoReq
    /\ Len(req.headers) = 2
    /\ Verify(req.headers[2], JWT_SECRET, now)

\* the identity that token carries
Actor == req.headers[2].payload

Target == req.id

TargetStored == Target \in DOMAIN components

IsOwner == Actor.id = components[Target].createdBy

SetsStatus(s) == Has(req.body, "status") /\ req.body.status = s

\* the request in flight is answered and carried a token (state predicate)
Answered(method, code) ==
    /\ req.method = method
    /\ res.code = code
    /\ Len(req.headers) = 2

(* ---------------- claims ---------------- *)

\* C1: a DELETE by an authenticated actor whose role is not exactly 'admin' is
\* answered 403 'Insufficient permissions' and leaves every stored component as
\* it was; a DELETE by an admin of a stored component is answered 200 and
\* removes that component and no other.
C1_DeleteOnlyAdmin ==
    [][(Answers("DELETE") /\ Authenticated) =>
          IF Actor.role # "admin"
          THEN /\ res' = Reply(403, "Insufficient permissions")
               /\ components' = components
          ELSE TargetStored =>
                  /\ res'.code = 200
                  /\ DOMAIN components' = (DOMAIN components) \ {Target}
                  /\ \A i \in DOMAIN components' : components'[i] = components[i]
      ]_vars

\* the owner of a stored component, a designer, was refused its deletion
C1_Witness ==
    /\ Answered("DELETE", 403)
    /\ res.error = "Insufficient permissions"
    /\ TargetStored
    /\ Actor.role = "designer"
    /\ IsOwner

\* C2: a PUT on a stored component whose updates set status to 'approved' is
\* answered 403 and changes nothing when the actor is not an admin (owner or
\* not, whatever else the body carries), and is applied when the actor is an
\* admin.
C2_ApproveIffAdmin ==
    [][(Answers("PUT") /\ Authenticated /\ TargetStored /\ SetsStatus("approved")) =>
          IF Actor.role # "admin"
          THEN /\ res'.code = 403
               /\ components' = components
          ELSE /\ res'.code = 200
               /\ components'[Target].status = "approved"
      ]_vars

\* the owner sent status 'approved' together with a name and was refused
C2_Witness ==
    /\ Answered("PUT", 403)
    /\ TargetStored
    /\ IsOwner
    /\ Actor.role # "admin"
    /\ req.body = [name |-> "B", status |-> "approved"]
    /\ components[Target].status # "approved"

C4_OwnerSetOnceAtCreation ==
    [][/\ \A i \in (DOMAIN components') \ (DOMAIN components) :
             Authenticated /\ components'[i].createdBy = Actor.id
       /\ \A i \in (DOMAIN components') \cap (DOMAIN components) :
             components'[i].createdBy = components[i].createdBy
      ]_vars

\* C5: a component is stored with status 'approved', by creation or by
\* update, only in a step that answers the request of an admin.
C5_ApprovedOnlyByAdmin ==
    [][\A i \in DOMAIN components' :
          (/\ components'[i].status = "approved"
           /\ i \in DOMAIN components => components[i].status # "approved")
          => (Authenticated /\ Actor.role = "admin")
      ]_vars

\* C6 as stated: every component a POST creates has status 'draft'.
C6_CreatedAsDraft ==
    [][(Answers("POST") /\ res'.code = 201) =>
          \A i \in (DOMAIN components') \ (DOMAIN components) :
             components'[i].status = "draft"
      ]_vars

\* C6 amended: a POST that carries name, description and category and no
\* status creates the component with status 'draft'; one that carries one of
\* the four status values creates the component with that status.
C6_CreatedWithBodyStatusOrDraft ==
    [][(Answers("POST") /\ Authenticated
          /\ Has(req.body, "name") /\ Has(req.body, "description")
          /\ Has(req.body, "category")
          /\ (Has(req.body, "status") => req.body.status \in StatusEnum)) =>
          /\ res'.code = 201
          /\ DOMAIN components' = (DOMAIN components) \cup {nextId}
          /\ nextId \notin DOMAIN components
          /\ components'[nextId].status =
                IF Has(req.body, "status") THEN req.body.status ELSE "draft"
      ]_vars

\* a designer's POST that carries status 'review' created a component in 'review'
C6_Witness ==
    /\ Answered("POST", 201)
    /\ Actor.role = "designer"
    /\ SetsStatus("review")
    /\ \E i \in DOMAIN components : i = nextId - 1 /\ components[i].status = "review"

\* C7: a PUT by the owner of the component that does not set status to
\* 'approved' is never answered 403, whatever the owner's role; it is answered
\* 200 unless the status it carries is outside the schema's enum, and then
\* every field of the body is stored and every other field except updatedAt
\* keeps its value.
C7_OwnerUpdates ==
    [][(Answers("PUT") /\ Authenticated /\ TargetStored /\ IsOwner
          /\ ~SetsStatus("approved")) =>
          /\ res'.code # 403
          /\ (Has(req.body, "status") => req.body.status \in StatusEnum)
                => res'.code = 200
          /\ res'.code = 200 =>
                /\ \A k \in DOMAIN req.body : components'[Target][k] = req.body[k]
                /\ \A k \in (DOMAIN components[Target]) \ (DOMAIN req.body \cup {"updatedAt"}) :
                      components'[Target][k] = components[Target][k]
                /\ components'[Target].updatedAt = now
      ]_vars

\* a developer renamed the component they own
C7_Witness ==
    /\ Answered("PUT", 200)
    /\ TargetStored
    /\ Actor.role = "developer"
    /\ IsOwner
    /\ req.body = [name |-> "B"]
    /\ components[Target].name = "B"

\* C8: a PUT by an actor who is neither the owner nor an admin whose body
\* carries a field other than status is answered 403 'Permission denied' and
\* changes nothing.
C8_GeneralUpdateDenied ==
    [][(Answers("PUT") /\ Authenticated /\ TargetStored
          /\ ~IsOwner /\ Actor.role # "admin"
          /\ (DOMAIN req.body) \ {"status"} # {}) =>
          /\ res' = Reply(403, "Permission denied")
          /\ components' = components
      ]_vars

\* a designer who does not own the component sent a name with status 'review'
C8_Witness ==
    /\ Answered("PUT", 403)
    /\ res.error = "Permission denied"
    /\ TargetStored
    /\ Actor.role = "designer"
    /\ ~IsOwner
    /\ req.body = [name |-> "B", status |-> "review"]
    /\ components[Target].name = "A"

\* C9: a PUT by an admin on a stored component is never answered 403; it is
\* answered 200 or, when the status it carries is outside the enum, 500.
C9_AdminNeverForbidden ==
    [][(Answers("PUT") /\ Authenticated /\ TargetStored /\ Actor.role = "admin") =>
          /\ res'.code \in {200, 500}
          /\ (Has(req.body, "status") => req.body.status \in StatusEnum)
                => res'.code = 200
      ]_vars

\* an admin approved and renamed a component of another user
C9_Witness ==
    /\ Answered("PUT", 200)
    /\ TargetStored
    /\ Actor.role = "admin"
    /\ ~IsOwner
    /\ req.body = [name |-> "B", status |-> "approved"]
    /\ components[Target].status = "approved"

\* C10: a request without an Authorization header, or whose header has no
\* token after the scheme, is answered 401 'Access token required' and the
\* handler of the route does not run: nothing is stored, changed or removed.
C10_MissingToken ==
    [][(req # NoReq /\ res = NoRes /\ res' # NoRes
          /\ (Len(req.headers) < 2 \/ req.headers[2] = EmptyToken)) =>
          /\ res' = Reply(401, "Access token required")
          /\ components' = components
          /\ nextId' = nextId
      ]_vars

\* a POST with a complete body and a header of one word was refused
C10_Witness ==
    /\ req.method = "POST"
    /\ req.headers = <<"InvalidFormat">>
    /\ req.body = PostBase
    /\ res = Reply(401, "Access token required")
    /\ nextId <= MaxComponents

\* the request in flight carries a token part
CarriesToken ==
    /\ req # NoReq
    /\ Len(req.headers) = 2
    /\ req.headers[2] # EmptyToken

\* the three ways a presented token is bad
IsMalformed == req.headers[2].segments # 3

IsMisSigned == req.headers[2].segments = 3 /\ req.headers[2].sig # JWT_SECRET

IsExpired ==
    /\ req.headers[2].segments = 3
    /\ req.headers[2].sig = JWT_SECRET
    /\ req.headers[2].exp <= now

\* the step in which whatever route answers the request in flight
AnswersAny == req # NoReq /\ res = NoRes /\ res' # NoRes

\* C11: a request whose token is malformed, signed with another secret or
\* expired is answered with the one response 403 'Invalid or expired token',
\* the same for the three causes, and the handler does not run for it: nothing
\* is stored, changed or removed.
C11_BadTokenOneError ==
    [][(AnswersAny /\ CarriesToken /\ (IsMalformed \/ IsMisSigned \/ IsExpired)) =>
          /\ res' = Reply(403, "Invalid or expired token")
          /\ components' = components
          /\ nextId' = nextId
      ]_vars

\* a token that was accepted at instant 0 is refused once it has expired
C11_Witness ==
    /\ req # NoReq
    /\ req.headers = ShortLivedHeader
    /\ req.method = "PUT"
    /\ now >= 1
    /\ res = Reply(403, "Invalid or expired token")

\* C12: a request whose token is expired or signed with another secret is
\* answered with the status of a missing token, 401, and never with 403, the
\* status of an authorization denial.
C12_BadTokenIsUnauthenticated ==
    [][(AnswersAny /\ CarriesToken /\ (IsMisSigned \/ IsExpired)) =>
          /\ res'.code = 401
          /\ res'.code # 403
          /\ components' = components
      ]_vars

\* C17: create and read are open to every authenticated role: for a verified
\* admin, designer or developer, a GET of the list and a GET of a stored
\* component are answered 200 and a POST carrying name, description and
\* category is never answered 403 (it is answered 201 or, when the status it
\* carries is outside the enum, 500).
C17_CreateReadEveryRole ==
    [][(AnswersAny /\ Authenticated /\ Actor.role \in {"admin", "designer", "developer"}) =>
          /\ (req.method = "GET" /\ req.path = "/") => res'.code = 200
          /\ (req.method = "GET" /\ req.path = "/:id" /\ TargetStored) => res'.code = 200
          /\ (/\ req.method = "POST"
              /\ Truthy(req.body, "name")
              /\ Truthy(req.body, "description")
              /\ Truthy(req.body, "category")) =>
                 /\ res'.code \in {201, 500}
                 /\ (Has(req.body, "status") /\ Truthy(req.body, "status")
                        => req.body.status \in StatusEnum) => res'.code = 201
      ]_vars

\* a developer created a component
C17_Witness ==
    /\ req # NoReq
    /\ Authenticated
    /\ Actor.role = "developer"
    /\ Answered("POST", 201)
    /\ \E i \in DOMAIN components : components[i].createdBy = Actor.id

\* C18: a PUT on a stored component that sets status to 'approved' by an actor
\* who is not an admin, owner or not, is answered 403 'Only admins can approve
\* components' and never 'Permission denied'.
C18_ApproveRuleFirst ==
    [][(Answers("PUT") /\ Authenticated /\ TargetStored
          /\ SetsStatus("approved") /\ Actor.role # "admin") =>
          /\ res' = Reply(403, "Only admins can approve components")
          /\ res'.error # "Permission denied"
      ]_vars

\* C19: a PUT on a stored component that sets status to 'review' together with
\* another field is judged as a general update: it is applied when the actor is
\* the owner or an admin, and is otherwise answered 403 'Permission denied' and
\* changes nothing, a designer included.
C19_ReviewWithOtherFieldIsGeneral ==
    [][(Answers("PUT") /\ Authenticated /\ TargetStored
          /\ SetsStatus("review") /\ (DOMAIN req.body) \ {"status"} # {}) =>
          IF IsOwner \/ Actor.role = "admin"
          THEN /\ res'.code = 200
               /\ components'[Target].status = "review"
               /\ \A k \in (DOMAIN req.body) \ {"status"} :
                     components'[Target][k] = req.body[k]
          ELSE /\ res' = Reply(403, "Permission denied")
               /\ components' = components
      ]_vars

\* a designer who does not own the component sent status 'review' with a name
\* and was refused
C19_Witness ==
    /\ req # NoReq
    /\ Authenticated
    /\ TargetStored
    /\ req.body = [name |-> "B", status |-> "review"]
    /\ Answered("PUT", 403)
    /\ res.error = "Permission denied"
    /\ Actor.role = "designer"
    /\ ~IsOwner
    /\ components[Target].status # "review"

\* the request in flight carries no token: no authorization header, a header
\* of one word, or an empty token part
CarriesNoToken ==
    /\ req # NoReq
    /\ Len(req.headers) = 2 => req.headers[2] = EmptyToken

\* C20: authentication runs before the role check: a DELETE without a token is
\* answered 401 'Access token required', never 'Insufficient permissions', and
\* the stored components are left as they were.
C20_AuthBeforeRole ==
    [][(Answers("DELETE") /\ CarriesNoToken) =>
          /\ res' = Reply(401, "Access token required")
          /\ res'.error # "Insufficient permissions"
          /\ components' = components
      ]_vars

\* a DELETE of a stored component without an authorization header was refused
C20_Witness ==
    /\ req # NoReq
    /\ req.method = "DELETE"
    /\ req.headers = <<>>
    /\ TargetStored
    /\ res = Reply(401, "Access token required")

\* the request in flight presents the token the client was issued by
\* register or login
PresentsSession ==
    /\ req # NoReq
    /\ session # NoSession
    /\ req.headers = Bearer(session.token)

\* C13: round trip of issue and verify: a request that presents the token
\* issued by register or login before its expiry is let through, and the
\* identity the route sees has the id, the username and the role of the user
\* the token was issued to.
C13_IssueVerifyRoundTrip ==
    [][(AnswersAny /\ PresentsSession /\ now < session.token.exp) =>
          /\ req.path = "/protected" =>
                /\ res'.code = 200
                /\ res'.user.id = session.user.id
                /\ res'.user.username = session.user.username
                /\ res'.user.role = session.user.role
          /\ (req.path = "/user-info" /\ session.user.role = "admin") =>
                /\ res'.code = 200
                /\ res'.userId = session.user.id
                /\ res'.username = session.user.username
                /\ res'.role = session.user.role
      ]_vars

\* a user registered as admin presented the token of the registration and the
\* route saw an admin with the id the store gave
C13_Witness ==
    /\ PresentsSession
    /\ req.path = "/protected"
    /\ res.code = 200
    /\ session.user.role = "admin"
    /\ \E i \in DOMAIN users :
          /\ users[i].id = res.user.id
          /\ users[i].username = res.user.username
          /\ users[i].role = res.user.role

\* C14: a route guarded by requireRole(allowed) lets a verified identity
\* through iff its role string is one of allowed, compared exactly: 'ADMIN' is
\* refused where 'admin' is allowed, an admin is refused where only designer
\* and developer are allowed, and the refusal is 403 'Insufficient
\* permissions'.
C14_RequireRoleExact ==
    [][(AnswersAny /\ Authenticated
          /\ req.path \in {"/admin-only", "/designer-dev", "/user-info"}) =>
          LET allowed == IF req.path = "/designer-dev"
                         THEN {"designer", "developer"}
                         ELSE {"admin"}
          IN IF Actor.role \in allowed
             THEN res'.code = 200
             ELSE res' = Reply(403, "Insufficient permissions")
      ]_vars

\* an identity of role 'ADMIN' was refused on the admin-only route
C14_Witness ==
    /\ req # NoReq
    /\ req.path = "/admin-only"
    /\ req.headers = UpperAdminHeader
    /\ res = Reply(403, "Insufficient permissions")

\* C15: a DELETE of a stored design token by an actor who is not an admin and
\* who created that token is refused and the token stays stored.
C15_TokenDeleteOnlyAdmin ==
    [][(Answers("DELETE") /\ Authenticated /\ req.id \in DOMAIN tokens
          /\ Actor.role # "admin" /\ tokens[req.id].createdBy = Actor.id) =>
          /\ res'.code = 403
          /\ tokens' = tokens
      ]_vars

C21_NoValidTokenNoChange ==
    [][(AnswersAny /\ req.method \in {"POST", "PUT", "DELETE"} /\ ~Authenticated) =>
          /\ components' = components
          /\ nextId' = nextId
          /\ res'.code \in {401, 403}
      ]_vars

\* a DELETE of a stored component with a token signed with another secret
\* was refused and the component is still stored
C21_Witness ==
    /\ req # NoReq
    /\ req.method = "DELETE"
    /\ req.headers = Bearer(Sign(Admin, "wrong-secret", NeverExpires))
    /\ res.code = 403
    /\ TargetStored

\* C22: the status workflow enforces no order of transitions: whatever the
\* current status of a stored component, a PUT carrying a status of the enum
\* is applied in one step when the actor is an admin, and when the actor is
\* the owner and the status is not 'approved'; the owner's 'approved' is
\* refused and changes nothing.
C22_NoTransitionOrder ==
    [][(Answers("PUT") /\ Authenticated /\ TargetStored
          /\ Has(req.body, "status") /\ req.body.status \in StatusEnum) =>
          \A from \in StatusEnum :
             components[Target].status = from =>
                /\ Actor.role = "admin" =>
                      /\ res'.code = 200
                      /\ components'[Target].status = req.body.status
                /\ (IsOwner /\ Actor.role # "admin" /\ req.body.status # "approved") =>
                      /\ res'.code = 200
                      /\ components'[Target].status = req.body.status
                /\ (IsOwner /\ Actor.role # "admin" /\ req.body.status = "approved") =>
                      /\ res'.code = 403
                      /\ components' = components
      ]_vars

\* an admin set 'draft' on a stored component that earlier PUTs had changed
C22_Witness ==
    /\ Answered("PUT", 200)
    /\ Authenticated
    /\ TargetStored
    /\ Actor.role = "admin"
    /\ req.body = [status |-> "draft"]
    /\ components[Target].status = "draft"
    /\ components[Target].name = "B"

\* C23: in every reachable state the status of every stored component is one
\* of draft, review, approved, deprecated.
C23_StatusInEnum ==
    \A i \in DOMAIN components : components[i].status \in StatusEnum

\* C25: a PUT on a stored component whose body is exactly {status: 'review'}
\* is applied for every actor of role designer, owner or not, and is answered
\* 403 'Permission denied', with nothing changed, for a developer who is not
\* the owner.
C25_DesignerSubmitsForReview ==
    [][(Answers("PUT") /\ Authenticated /\ TargetStored
          /\ req.body = [status |-> "review"]) =>
          /\ Actor.role = "designer" =>
                /\ res'.code = 200
                /\ components'[Target].status = "review"
          /\ (Actor.role = "developer" /\ ~IsOwner) =>
                /\ res' = Reply(403, "Permission denied")
                /\ components' = components
      ]_vars

\* a developer who does not own the component asked for 'review' and was refused
C25_Witness ==
    /\ Answered("PUT", 403)
    /\ Authenticated
    /\ TargetStored
    /\ req.body = [status |-> "review"]
    /\ Actor.role = "developer"
    /\ ~IsOwner
    /\ res.error = "Permission denied"

\* C26: a PUT or DELETE on a component that is answered 401, 403 or 404 leaves
\* the set of stored components and every field of every component, status,
\* createdBy and updatedAt included, as they were.
C26_DeniedChangesNothing ==
    [][(AnswersAny /\ req.method \in {"PUT", "DELETE"}
          /\ res'.code \in {401, 403, 404}) =>
          /\ DOMAIN components' = DOMAIN components
          /\ \A i \in DOMAIN components :
                \A k \in DOMAIN components[i] : components'[i][k] = components[i][k]
          /\ nextId' = nextId
      ]_vars

\* a designer's DELETE of a stored component was refused at a later instant
\* than the component's last write, and the component is still stored
C26_Witness ==
    /\ Answered("DELETE", 403)
    /\ Authenticated
    /\ Actor.role = "designer"
    /\ TargetStored
    /\ components[Target].updatedAt < now

\* C28: a POST whose body lacks name, description or category is answered 400
\* 'Name, description, and category are required' and creates nothing; a POST
\* that creates a component stores it with createdBy equal to the id of the
\* authenticated actor, whatever createdBy the body carries.
C28_RequiredFieldsAndOwner ==
    [][(Answers("POST") /\ Authenticated) =>
          IF ~(/\ Truthy(req.body, "name")
               /\ Truthy(req.body, "description")
               /\ Truthy(req.body, "category"))
          THEN /\ res' = Reply(400, "Name, description, and category are required")
               /\ components' = components
               /\ nextId' = nextId
          ELSE /\ res'.code \in {201, 500}
               /\ res'.code = 201 =>
                     /\ DOMAIN components' = DOMAIN components \cup {nextId}
                     /\ components'[nextId].createdBy = Actor.id
               /\ res'.code = 500 => components' = components
      ]_vars

\* a designer's POST whose body named the admin as createdBy created a
\* component owned by the designer
C28_Witness ==
    /\ Answered("POST", 201)
    /\ Authenticated
    /\ Actor.role = "designer"
    /\ Has(req.body, "createdBy")
    /\ req.body.createdBy = Admin.id
    /\ \E i \in DOMAIN components : components[i].createdBy = Actor.id

\* a request on one component whose id matches no stored component
OnAbsentId ==
    /\ req.path = "/:id"
    /\ ~TargetStored

\* C27 as stated: a GET, PUT or DELETE by any authenticated actor on an id that
\* matches no stored component is answered 404 'Component not found'.
C27_NotFoundBeforeAuthorization ==
    [][(AnswersAny /\ Authenticated /\ OnAbsentId
          /\ req.method \in {"GET", "PUT", "DELETE"}) =>
          res' = Reply(404, "Component not found")
      ]_vars

\* C27: on an id that matches no stored component, a GET or a PUT by any
\* authenticated actor and a DELETE by an admin are answered 404 'Component
\* not found'; a DELETE by an actor who is not an admin is answered 403
\* 'Insufficient permissions' whether the id is stored or not; nothing is
\* changed, and an id that was removed stays absent, so every later request on
\* it is answered the same way.
C27_NotFoundExceptGuardedDelete ==
    [][/\ (AnswersAny /\ Authenticated /\ OnAbsentId) =>
             /\ IF req.method = "DELETE" /\ Actor.role # "admin"
                THEN res' = Reply(403, "Insufficient permissions")
                ELSE res' = Reply(404, "Component not found")
             /\ components' = components
       /\ (Answers("DELETE") /\ Authenticated /\ Actor.role # "admin") =>
             res' = Reply(403, "Insufficient permissions")
       /\ \A i \in 1..(nextId - 1) :
             i \notin DOMAIN components => i \notin DOMAIN components'
      ]_vars

\* after the one component was removed, a designer's PUT on its id was
\* answered 404
C27_Witness ==
    /\ Answered("PUT", 404)
    /\ Authenticated
    /\ Actor.role = "designer"
    /\ req.id < nextId
    /\ ~TargetStored
    /\ res.error = "Component not found"

\* the store holds a user with the email of the login in flight whose
\* password matches
StoreHoldsCredentials ==
    \E i \in DOMAIN users :
       /\ users[i].email = req.body.email
       /\ Compare(req.body.password, users[i].password)

\* C29: whenever the store answers the lookup of a login that carries an
\* email and a password, a token is issued iff the store holds a user with
\* that email whose password matches, and every other pair, a pair of the
\* hardcoded list included, is answered 401 'Invalid credentials' without a
\* token.
C29_FallbackOnlyWhenStoreDown ==
    [][(/\ Answers("POST")
        /\ req.path = "/login"
        /\ Truthy(req.body, "email")
        /\ Truthy(req.body, "password")
        /\ res' = LoginHandler(users, req.body, now, TRUE).res) =>
          IF StoreHoldsCredentials
          THEN res'.code = 200 /\ "token" \in DOMAIN res'
          ELSE res' = Reply(401, "Invalid credentials")
      ]_vars

\* the rules of the PUT handler let the actor apply the updates to the
\* component
Permits(component, user, updates) ==
    /\ ~(NotOwnerNorAdmin(component, user) /\ ~ReviewExemption(user, updates))
    /\ ~ApproveDenied(user, updates)

\* the actor whose token a PUT request in a slot carries
SlotActor(s) == puts[s].req.headers[2].payload

\* C24: a PUT request decides on the component document it loaded at its
\* start: it is refused with 403 iff the rules refuse the actor on the loaded
\* document, whatever the store holds when the decision is taken, and when
\* it is answered 200 the fields of its body are written to the store.
C24_DecidesOnLoadedSnapshot ==
    [][\A s \in Slots :
          (puts[s].stage = "loaded" /\ puts'[s].stage = "done") =>
             LET p == puts[s] IN
             /\ puts'[s].res.code = 403 <=>
                   ~Permits(p.component, p.user, p.req.body)
             /\ puts'[s].res.code = 200 =>
                   \A k \in DOMAIN p.req.body :
                      components'[p.req.id][k] = p.req.body[k]
             /\ puts'[s].res.code # 200 => components' = components
      ]_vars

\* C24 witness: the designer's PUT of a new name and the admin's PUT of a
\* new owner interleaved; the admin's write came first, the designer, who
\* had loaded the component while still its owner, was answered 200 after
\* it, and the store holds the designer's name on a component the rules
\* refuse the designer on.
C24_Witness ==
    /\ puts[1].stage = "done" /\ puts[2].stage = "done"
    /\ SlotActor(1) = Designer /\ puts[1].req.body = [name |-> "B"]
    /\ SlotActor(2) = Admin /\ puts[2].req.body = [createdBy |-> Admin.id]
    /\ puts[1].req.id = puts[2].req.id
    /\ puts[1].res.code = 200 /\ puts[2].res.code = 200
    /\ puts[1].res.component.createdBy = Designer.id
    /\ puts[2].res.component.updatedAt < puts[1].res.component.updatedAt
    /\ components[puts[1].req.id].name = "B"
    /\ components[puts[1].req.id].createdBy = Admin.id
    /\ ~Permits(components[puts[1].req.id], Designer, puts[1].req.body)

====
